---- MODULE Spec2Model ----
(***************************************************************************)
(* BlockingDelayQueue (src/src/blocking_delay_queue.rs): a min-heap of     *)
(* delayed elements behind one Mutex and one Condvar.                      *)
(*                                                                         *)
(* One step of the model is one critical section: the code between taking  *)
(* the lock and either releasing it or parking on the condition variable.  *)
(* Instant::now() is the discrete clock `now`; every clock read inside one *)
(* critical section sees the same value.  A timed wait of duration d that  *)
(* began at s has timed out once now - s >= d.                             *)
(***************************************************************************)
EXTENDS Integers, Sequences, FiniteSets

\* ---------------------------------------------------------------- bounds
NProducers == 1
NConsumers == 2
MaxTime    == 2
MaxItems   == 3
MaxFill    == 5
MaxCap     == 1
MaxTimeout == 2

\* Vec<T>'s smallest non-zero allocation for elements of 2..1024 bytes
\* (the backing storage of BinaryHeap::new(), line 21).
MIN_NON_ZERO_CAP == 4

Producers == 1 .. NProducers
Consumers == (NProducers + 1) .. (NProducers + NConsumers)
Threads   == Producers \cup Consumers

VARIABLES
    now,        \* Instant::now()
    heap,       \* BinaryHeap's backing vector (heap.data), a sequence of elements
    capacity,   \* heap.capacity(): the backing vector's allocated capacity
    bound,      \* the constructor's argument (0: new_unbounded / new_with_capacity(0))
    th,         \* per thread: where it is in its call
    nextId,     \* next fresh element identity
    inserted,   \* ids whose add returned / whose offer returned true
    removed,    \* ids returned by take / poll
    nRemoved,   \* how many elements take / poll have returned
    cleared,    \* ids discarded by clear()
    rejected,   \* ids whose offer returned false
    poisoned,   \* the mutex's poison flag
    ev          \* what the last step returned to its caller, if it returned

vars == <<now, heap, capacity, bound, th, nextId, inserted, removed, nRemoved,
          cleared, rejected, poisoned, ev>>

NoElem == [id |-> 0, ready |-> 0]

Idle == [pc |-> "idle", woken |-> FALSE, op |-> "none", e |-> NoElem,
         timeout |-> 0, start |-> 0, dur |-> 0, cap |-> 0]

NoEv == [t |-> 0, op |-> "none", res |-> "none", e |-> NoElem, timeout |-> 0,
         waited |-> 0, parked |-> FALSE, notified |-> 0, size |-> 0]

Max(a, b) == IF a >= b THEN a ELSE b

\* ------------------------------------------------------ the element order
\* T: Delayed + Ord.  The order of the element type is by ready-time.
DelayedLE(a, b) == a.ready <= b.ready

\* Reverse<T>: x <= y  iff  y.0 <= x.0
ReverseLE(x, y) == DelayedLE(y, x)

\* ------------------------------------------------- BinaryHeap<Reverse<T>>
\* Positions are 0-based as in the library; h[p + 1] is data[p].
Swap(h, p, q) == [h EXCEPT ![p + 1] = h[q + 1], ![q + 1] = h[p + 1]]

RECURSIVE SiftUp(_, _, _)
SiftUp(h, start, pos) ==
    IF pos > start
    THEN LET parent == (pos - 1) \div 2
         IN  IF ReverseLE(h[pos + 1], h[parent + 1])
             THEN h
             ELSE SiftUp(Swap(h, pos, parent), start, parent)
    ELSE h

RECURSIVE SiftDown(_, _)
\* sift_down_to_bottom's descent: <<vector, final hole position>>
SiftDown(h, pos) ==
    LET end   == Len(h)
        child == 2 * pos + 1
    IN  IF child <= Max(end - 2, 0)
        THEN LET c == IF ReverseLE(h[child + 1], h[child + 2])
                      THEN child + 1 ELSE child
             IN  SiftDown(Swap(h, pos, c), c)
        ELSE IF child = end - 1
             THEN <<Swap(h, pos, child), child>>
             ELSE <<h, pos>>

SiftDownToBottom(h, pos) ==
    LET d == SiftDown(h, pos) IN SiftUp(d[1], pos, d[2])

PushNoSift(h, e) == Append(h, e)

\* BinaryHeap::push
Push(h, e) == SiftUp(Append(h, e), 0, Len(h))

PopKeep(h) == [e |-> h[1], h |-> h]

\* BinaryHeap::pop on a non-empty heap: the element and the heap left
Pop(h) ==
    LET last == h[Len(h)]
        rest == SubSeq(h, 1, Len(h) - 1)
    IN  IF rest = <<>>
        THEN [e |-> last, h |-> rest]
        ELSE [e |-> rest[1], h |-> SiftDownToBottom([rest EXCEPT ![1] = last], 0)]

\* BinaryHeap::peek
Peek(h) == h[1]

\* Vec's amortized growth when a push finds len = capacity
GrownCapacity(h, cap) ==
    IF Len(h) < cap THEN cap
    ELSE Max(Max(2 * cap, Len(h) + 1), MIN_NON_ZERO_CAP)

\* ------------------------------------------------------------ predicates
\* can_accept_element
CanAcceptElement(h, cap) == IF cap = 0 THEN TRUE ELSE Len(h) < cap

SlotWaitOffByOne(h, cap) == Len(h) > cap

\* the closure |h| h.len() >= cap of add and offer
SlotWaitCondition(h, cap) == Len(h) >= cap

WaitConditionNoEmpty(h, t) == h # <<>> /\ h[1].ready > t

WaitConditionEmptyOnly(h, t) == h = <<>>

\* wait_condition: keep waiting while empty or head not ready
WaitCondition(h, t) == IF h = <<>> THEN TRUE ELSE Peek(h).ready > t

\* is_expired
IsExpired(e, t) == e.ready <= t

DelayHeadOnly(timeout, e, t) == e.ready - t

\* the `delay` of wait_for_element
Delay(timeout, e, t) == IF timeout = 0 THEN e.ready - t ELSE timeout

TimedOutEarly(start, dur, t) == t - start >= dur - 1

\* wait_timeout_while's dur.checked_sub(start.elapsed()) = None
TimedOut(start, dur, t) == t - start >= dur

\* Condvar::notify_one: the thread maps that can result (one parked thread
\* that has not been woken yet becomes runnable; none if nobody is parked)
Parked(f) == {w \in Threads : f[w].pc \in {"slotAdd", "slotOffer", "elem", "elemTimed"}
                              /\ ~f[w].woken}

NotifyAll(f) ==
    {[w \in Threads |-> IF w \in Parked(f) THEN [f[w] EXCEPT !.woken = TRUE]
                                            ELSE f[w]]}

NotifyOne(f) ==
    IF Parked(f) = {} THEN {f}
    ELSE {[f EXCEPT ![w].woken = TRUE] : w \in Parked(f)}

Ids(h) == {h[i].id : i \in 1 .. Len(h)}

\* ------------------------------------------------- pieces of the handlers
LockNeverPoisoned(p) == FALSE

\* self.heap.lock() and the condition variable's waits yield Err when the
\* poison flag p is set
LockPoisoned(p) == p

\* what a call hands back: res is "unit" (add, clear), "true" / "false"
\* (offer), "some" / "empty" (take, poll) or "size"; waited is the time
\* since the call's (last) wait began; parked tells whether the caller had
\* parked on the condition variable; notified counts notify_one calls
Event(t, op, res, e, timeout, waited, n) ==
    [t |-> t, op |-> op, res |-> res, e |-> e, timeout |-> timeout,
     waited |-> waited, parked |-> (t # 0 /\ th[t].pc # "idle"),
     notified |-> n, size |-> 0]

\* expect("Queue lock poisoned") / expect("Condvar lock poisoned") on Err:
\* the caller unwinds before it has touched the heap (t = 0: a caller that
\* is none of the modelled threads)
Panics(t, op) ==
    /\ th' = IF t = 0 THEN th ELSE [th EXCEPT ![t] = Idle]
    /\ ev' = Event(t, op, "panic", NoElem, 0, 0, 0)
    /\ UNCHANGED <<heap, capacity, inserted, removed, nRemoved, rejected,
                   poisoned>>

\* mutex.pop().unwrap() on None: the caller unwinds while it holds the
\* guard, which poisons the mutex
PopPanics(t, op) ==
    /\ poisoned' = TRUE
    /\ th' = [th EXCEPT ![t] = Idle]
    /\ ev' = Event(t, op, "panic", NoElem, 0, 0, 0)
    /\ UNCHANGED <<heap, capacity, inserted, removed, nRemoved, rejected>>

\* heap.push(Reverse(e)); self.condvar.notify_one(); return
PushAndNotify(t, op, res, e, timeout, start) ==
    /\ heap' = Push(heap, e)
    /\ capacity' = GrownCapacity(heap, capacity)
    /\ th' \in NotifyOne([th EXCEPT ![t] = Idle])
    /\ inserted' = inserted \cup {e.id}
    /\ ev' = Event(t, op, res, e, timeout, now - start, 1)
    /\ UNCHANGED <<removed, nRemoved, rejected, poisoned>>

\* pop_and_notify, and the return of the popped element
PopAndNotify(t, op, timeout, start) ==
    IF heap = <<>>
    THEN PopPanics(t, op)
    ELSE LET p == Pop(heap)
         IN  /\ heap' = p.h
             /\ removed' = removed \cup {p.e.id}
             /\ nRemoved' = nRemoved + 1
             /\ th' \in NotifyOne([th EXCEPT ![t] = Idle])
             /\ ev' = Event(t, op, "some", p.e, timeout, now - start, 1)
             /\ UNCHANGED <<capacity, inserted, rejected, poisoned>>

\* the caller parks on the condition variable, the lock released
Park(t, rec) ==
    /\ th' = [th EXCEPT ![t] = rec]
    /\ ev' = NoEv
    /\ UNCHANGED <<heap, capacity, inserted, removed, nRemoved, rejected,
                   poisoned>>

\* a return that leaves the heap alone: offer's false, poll's None
ReturnEmpty(t, op, res, e, timeout, start) ==
    /\ th' = [th EXCEPT ![t] = Idle]
    /\ ev' = Event(t, op, res, e, timeout, now - start, 0)
    /\ rejected' = IF op = "offer" THEN rejected \cup {e.id} ELSE rejected
    /\ UNCHANGED <<heap, capacity, inserted, removed, nRemoved, poisoned>>

TimedWaitNoRetry(t, op, timeout, start, dur) ==
    IF ~WaitCondition(heap, now)
    THEN PopAndNotify(t, op, timeout, start)
    ELSE IF TimedOut(start, dur, now)
         THEN ReturnEmpty(t, op, "empty", NoElem, timeout, start)
         ELSE Park(t, [Idle EXCEPT !.pc = "elemTimed", !.op = op,
                                   !.timeout = timeout,
                                   !.start = start, !.dur = dur])

\* one round of wait_timeout_while(heap, dur, wait_condition()) followed by
\* the match on res.timed_out(), and for take the match at lines 117-123
TimedWait(t, op, timeout, start, dur) ==
    IF ~WaitCondition(heap, now)
    THEN PopAndNotify(t, op, timeout, start)
    ELSE IF TimedOut(start, dur, now)
         THEN IF timeout = 0
              THEN Park(t, [Idle EXCEPT !.pc = "retry", !.op = op])
              ELSE ReturnEmpty(t, op, "empty", NoElem, timeout, start)
         ELSE Park(t, [Idle EXCEPT !.pc = "elemTimed", !.op = op,
                                   !.timeout = timeout,
                                   !.start = start, !.dur = dur])

\* wait_for_element, from taking the lock to its first return or park
WaitForElement(t, op, timeout) ==
    IF LockPoisoned(poisoned)
    THEN Panics(t, op)
    ELSE IF heap # <<>>
         THEN IF IsExpired(Peek(heap), now)
              THEN PopAndNotify(t, op, timeout, now)
              ELSE TimedWait(t, op, timeout, now, Delay(timeout, Peek(heap), now))
         ELSE IF timeout = 0
              THEN Park(t, [Idle EXCEPT !.pc = "elem", !.op = op])
              ELSE TimedWait(t, op, timeout, now, timeout)

\* ---------------------------------------------------------------- actions
\* new_unbounded() / new_with_capacity(bound).  BinaryHeap::new() allocates
\* nothing (capacity 0); BinaryHeap::with_capacity(n) allocates exactly n
\* slots for a sized element type such as an item carrying an Instant.
Init ==
    /\ now = 0
    /\ heap = <<>>
    /\ bound \in 0 .. MaxCap
    /\ capacity = bound
    /\ th = [t \in Threads |-> Idle]
    /\ nextId = 1
    /\ inserted = {}
    /\ removed = {}
    /\ nRemoved = 0
    /\ cleared = {}
    /\ rejected = {}
    /\ poisoned = FALSE
    /\ ev = NoEv

\* add(e)
Add(t, r, budget) ==
    /\ th[t].pc = "idle"
    /\ nextId <= budget
    /\ LET e == [id |-> nextId, ready |-> r]
       IN  IF LockPoisoned(poisoned)
           THEN Panics(t, "add")
           ELSE IF CanAcceptElement(heap, capacity)
                THEN PushAndNotify(t, "add", "unit", e, 0, now)
                ELSE Park(t, [Idle EXCEPT !.pc = "slotAdd", !.op = "add",
                                          !.e = e, !.cap = capacity])
    /\ nextId' = nextId + 1
    /\ UNCHANGED <<now, bound, cleared>>

\* offer(e, timeout)
Offer(t, r, timeout, budget) ==
    /\ th[t].pc = "idle"
    /\ nextId <= budget
    /\ LET e == [id |-> nextId, ready |-> r]
       IN  IF LockPoisoned(poisoned)
           THEN Panics(t, "offer")
           ELSE IF CanAcceptElement(heap, capacity)
           THEN PushAndNotify(t, "offer", "true", e, timeout, now)
           ELSE IF ~SlotWaitCondition(heap, capacity)
                THEN PushAndNotify(t, "offer", "true", e, timeout, now)
                ELSE IF TimedOut(now, timeout, now)
                     THEN ReturnEmpty(t, "offer", "false", e, timeout, now)
                     ELSE Park(t, [Idle EXCEPT !.pc = "slotOffer", !.op = "offer",
                                               !.e = e, !.timeout = timeout,
                                               !.start = now, !.dur = timeout,
                                               !.cap = capacity])
    /\ nextId' = nextId + 1
    /\ UNCHANGED <<now, bound, cleared>>

\* take()
Take(t) ==
    /\ th[t].pc = "idle"
    /\ WaitForElement(t, "take", 0)
    /\ UNCHANGED <<now, bound, nextId, cleared>>

\* poll(timeout)
Poll(t, timeout) ==
    /\ th[t].pc = "idle"
    /\ WaitForElement(t, "poll", timeout)
    /\ UNCHANGED <<now, bound, nextId, cleared>>

\* size()
Size ==
    /\ IF LockPoisoned(poisoned)
       THEN Panics(0, "size")
       ELSE /\ ev' = [Event(0, "size", "size", NoElem, 0, 0, 0)
                        EXCEPT !.size = Len(heap)]
            /\ UNCHANGED <<heap, capacity, th, inserted, removed, nRemoved,
                           rejected, poisoned>>
    /\ UNCHANGED <<now, bound, nextId, cleared>>

\* clear()
Clear ==
    /\ IF LockPoisoned(poisoned)
       THEN Panics(0, "clear") /\ UNCHANGED cleared
       ELSE /\ heap' = <<>>
            /\ cleared' = cleared \cup Ids(heap)
            /\ ev' = NoEv
            /\ UNCHANGED <<capacity, th, inserted, removed, nRemoved, rejected,
                           poisoned>>
    /\ UNCHANGED <<now, bound, nextId>>

\* A parked thread goes round its wait loop once more, the lock re-acquired.
Recheck(t) ==
    /\ LET c == th[t]
       IN  IF LockPoisoned(poisoned) THEN Panics(t, c.op) ELSE
           CASE c.pc = "slotAdd" ->
                  IF SlotWaitCondition(heap, c.cap)
                  THEN Park(t, [c EXCEPT !.woken = FALSE])
                  ELSE PushAndNotify(t, "add", "unit", c.e, 0, now)
             [] c.pc = "slotOffer" ->
                  IF ~SlotWaitCondition(heap, c.cap)
                  THEN PushAndNotify(t, "offer", "true", c.e, c.timeout, c.start)
                  ELSE IF TimedOut(c.start, c.dur, now)
                       THEN ReturnEmpty(t, "offer", "false", c.e, c.timeout, c.start)
                       ELSE Park(t, [c EXCEPT !.woken = FALSE])
             [] c.pc = "elem" ->
                  IF WaitCondition(heap, now)
                  THEN Park(t, [c EXCEPT !.woken = FALSE])
                  ELSE PopAndNotify(t, c.op, c.timeout, now)
             [] c.pc = "elemTimed" ->
                  TimedWait(t, c.op, c.timeout, c.start, c.dur)
    /\ UNCHANGED <<now, bound, nextId, cleared>>

\* the thread was notified, or its timed wait ran out
CanWake(t) ==
    /\ th[t].pc \in {"slotAdd", "slotOffer", "elem", "elemTimed"}
    /\ \/ th[t].woken
       \/ /\ th[t].pc \in {"slotOffer", "elemTimed"}
          /\ TimedOut(th[t].start, th[t].dur, now)

Wake(t) ==
    /\ CanWake(t)
    /\ Recheck(t)

\* a spurious wake-up: the condition variable lets a parked thread run
\* although nobody notified it
Spurious(t) ==
    /\ t \in Parked(th)
    /\ ~CanWake(t)
    /\ Recheck(t)

\* the recursive call self.wait_for_element(timeout) of line 120
Retry(t) ==
    /\ th[t].pc = "retry"
    /\ WaitForElement(t, th[t].op, 0)
    /\ UNCHANGED <<now, bound, nextId, cleared>>

\* the clock advances
Tick ==
    /\ now < MaxTime
    /\ now' = now + 1
    /\ ev' = NoEv
    /\ UNCHANGED <<heap, capacity, bound, th, nextId, inserted, removed,
                   nRemoved, cleared, rejected, poisoned>>

\* the clock advances only when no parked thread is due to run: every
\* thread is scheduled as soon as it is runnable
Pending(t) == CanWake(t) \/ th[t].pc = "retry"

TickUrgent ==
    /\ \A t \in Threads : ~Pending(t)
    /\ Tick

\* The calls the environment makes: producers in P create at most `budget`
\* elements, ready now or later; consumers in C take and poll.
Calls(P, C, budget) ==
    \/ \E t \in P, r \in now .. MaxTime : Add(t, r, budget)
    \/ \E t \in P, r \in now .. MaxTime, d \in 0 .. MaxTimeout : Offer(t, r, d, budget)
    \/ \E t \in C : Take(t)
    \/ \E t \in C, d \in 0 .. MaxTimeout : Poll(t, d)
    \/ Size
    \/ Clear

Steps ==
    \/ \E t \in Threads : Wake(t)
    \/ \E t \in Threads : Retry(t)
    \/ \E t \in Threads : Spurious(t)

Next ==
    \/ Calls(Producers, Consumers, MaxItems)
    \/ Steps
    \/ Tick

Spec == Init /\ [][Next]_vars

NextUrgent ==
    \/ Calls(Producers, Consumers, MaxItems)
    \/ Steps
    \/ TickUrgent

SpecUrgent == Init /\ [][NextUrgent]_vars

\* Fair scheduling and a progressing clock: a runnable thread runs, and time
\* passes.  New calls and spurious wake-ups are not owed to anyone.
SpecFair ==
    /\ Init /\ [][Next]_vars
    /\ WF_vars(Tick)
    /\ \A t \in Threads : WF_vars(Wake(t)) /\ WF_vars(Retry(t))

\* A queue built by new_unbounded() that the producers fill while a single
\* consumer drains it.
InitUnbounded == Init /\ bound = 0

NextUnbounded ==
    \/ Calls(Producers, {NProducers + 1}, MaxFill)
    \/ Steps
    \/ Tick

SpecUnbounded == InitUnbounded /\ [][NextUnbounded]_vars

\* A payload whose methods may panic: some caller unwinds inside its
\* critical section, the guard still held, before it has changed the heap.
\* SpecPoison lets this happen beside the producers and one consumer.
Crash ==
    /\ ~poisoned
    /\ poisoned' = TRUE
    /\ ev' = Event(0, "crash", "panic", NoElem, 0, 0, 0)
    /\ UNCHANGED <<now, heap, capacity, bound, th, nextId, inserted, removed,
                   nRemoved, cleared, rejected>>

NextPoison ==
    \/ Calls(Producers, {NProducers + 1}, MaxItems)
    \/ Steps
    \/ Tick
    \/ Crash

SpecPoison == Init /\ [][NextPoison]_vars

\* ----------------------------------------------------------------- claims
Returned(op) == ev.op = op /\ ev.res # "none"

\* C1: readiness gating.  Whenever take or poll hands back an element, the
\* element's ready-time is not later than the clock at the moment of the pop.
C1_ReadinessGating ==
    ev.res = "some" => ev.e.ready <= now

\* a consumer waited for a head that was not ready and got it the moment it was
C1_Witness ==
    /\ ev.res = "some"
    /\ ev.waited > 0
    /\ ev.e.ready = now

\* C2: deadline ordering.  The element a take or poll hands back has the
\* smallest ready-time of everything the queue held when it was popped, and
\* the head of the heap is at all times a minimum of the heap, so removals
\* that follow one another without an insertion between them come out in
\* ascending ready-time order whatever the insertion order was.
C2_PopsMinimum ==
    /\ ev.res = "some" => \A i \in 1 .. Len(heap) : ev.e.ready <= heap[i].ready
    /\ \A i \in 1 .. Len(heap) : heap[1].ready <= heap[i].ready

\* two removals, one right after the other
C2_Ascending ==
    (ev.res = "some" /\ ev'.res = "some") => ev.e.ready <= ev'.e.ready

C2_DeadlineOrdering == []C2_PopsMinimum /\ [][C2_Ascending]_vars

\* the element handed back was inserted after one that is still queued and
\* overtook it, its ready-time being strictly smaller
C2_Witness ==
    /\ ev.res = "some"
    /\ \E i \in 1 .. Len(heap) :
          heap[i].id < ev.e.id /\ ev.e.ready < heap[i].ready

\* C3: bounded capacity.  A queue built with new_with_capacity(C), C > 0,
\* never holds more than C elements, and size() never reports more than C.
C3_BoundedCapacity ==
    bound > 0 =>
        /\ Len(heap) <= bound
        /\ ev.res = "size" => ev.size <= bound

\* a producer that had parked for a slot has inserted and filled the queue
C3_Witness ==
    /\ bound > 0
    /\ Returned("add") /\ ev.parked
    /\ Len(heap) = bound

\* C4: no loss, no duplication.  The elements successfully inserted are
\* exactly those handed back by take / poll, those still queued and those
\* discarded by clear, each in one of the three places only and handed back
\* at most once; an offer that returned false never inserted; and when as
\* many elements were removed as inserted (nothing cleared) the queue is empty.
C4_NoLossNoDuplication ==
    /\ inserted = removed \cup Ids(heap) \cup cleared
    /\ removed \cap Ids(heap) = {}
    /\ removed \cap cleared = {}
    /\ cleared \cap Ids(heap) = {}
    /\ Cardinality(Ids(heap)) = Len(heap)
    /\ Cardinality(removed) = nRemoved
    /\ inserted \cap rejected = {}
    /\ (Cardinality(inserted) = nRemoved /\ cleared = {}) => heap = <<>>

\* one element handed back, one cleared, one still queued
C4_Witness ==
    /\ nRemoved >= 1
    /\ cleared # {}
    /\ heap # <<>>
    /\ ev.res = "some"

\* C5: take() liveness from an empty queue.  A take() parked in the wait it
\* entered on an empty queue returns once the head of the queue is ready
\* (unless another consumer got the element first and the queue is empty
\* again), with fair scheduling and a progressing clock and no further call.
HeadReady == heap # <<>> /\ IsExpired(Peek(heap), now)

ParkedOnEmpty(t) == th[t].pc = "elem" /\ th[t].op = "take"

C5_TakeLiveness ==
    \A t \in Consumers :
        (ParkedOnEmpty(t) /\ HeadReady) ~> (~ParkedOnEmpty(t) \/ heap = <<>>)

\* C6: add() liveness on a full bounded queue.  When a take or poll frees a
\* slot while a producer is parked in add(), then eventually the slot is
\* filled or no producer is parked in add() any more: a producer does not
\* stay parked forever beside a free slot.
FreeSlotWhileParked ==
    \E p \in Producers : th[p].pc = "slotAdd" /\ Len(heap) < th[p].cap

C6_AddLiveness ==
    (ev.res = "some" /\ FreeSlotWhileParked) ~> ~FreeSlotWhileParked

\* C7: an unbounded queue has no capacity limit.  On a queue built by
\* new_unbounded() or new_with_capacity(0) no producer ever parks in add()
\* or offer() for a slot, and offer() never returns false.
C7_UnboundedNeverFull ==
    bound = 0 =>
        /\ \A p \in Producers : th[p].pc \notin {"slotAdd", "slotOffer"}
        /\ ~(ev.op = "offer" /\ ev.res = "false")

\* C8: offer timeout.  An offer(x, T) that returns false does so not earlier
\* than T after it was called, leaves the queue as it was, and x is never
\* in the queue afterwards; an offer that returns true has pushed x, and it
\* pushed into a free slot (so with no slot freed it cannot return true).
OfferFalse(e) == e.op = "offer" /\ e.res = "false"

OfferTrue(e) == e.op = "offer" /\ e.res = "true"

C8_OfferState ==
    /\ OfferFalse(ev) => ev.waited >= ev.timeout
    /\ rejected \cap (Ids(heap) \cup inserted) = {}
    /\ OfferTrue(ev) => ev.e.id \in Ids(heap)

C8_OfferStep ==
    /\ OfferFalse(ev') => heap' = heap
    /\ OfferTrue(ev') =>
          /\ Len(heap') = Len(heap) + 1
          /\ bound > 0 => Len(heap) < bound

C8_OfferTimeout == []C8_OfferState /\ [][C8_OfferStep]_vars

\* an offer parked on a full bounded queue for its whole timeout and
\* returned false, the queue still full
C8_Witness ==
    /\ OfferFalse(ev)
    /\ ev.parked /\ ev.timeout >= 1
    /\ bound > 0 /\ Len(heap) = bound
    /\ ev.e.id \in rejected

\* C9: poll timeout.  With every thread scheduled as soon as it can run, a
\* poll(T), T > 0, is never parked later than T after it was called and
\* returns within T; when it returns None it does so not earlier than T and
\* leaves the queue as it was.
InPoll(t) == th[t].op = "poll" /\ th[t].timeout > 0

PollEmpty(e) == e.op = "poll" /\ e.res = "empty"

C9_PollState ==
    /\ \A t \in Consumers :
          InPoll(t) => /\ th[t].pc = "elemTimed"
                       /\ now - th[t].start <= th[t].timeout
    /\ (ev.op = "poll" /\ ev.timeout > 0 /\ ev.res # "none") =>
          ev.waited <= ev.timeout
    /\ PollEmpty(ev) => ev.waited >= ev.timeout

C9_PollStep == PollEmpty(ev') => heap' = heap

C9_PollTimeout == []C9_PollState /\ [][C9_PollStep]_vars

\* a poll parked for its whole timeout and returned None
C9_Witness ==
    /\ PollEmpty(ev)
    /\ ev.parked
    /\ ev.timeout >= 1
    /\ ev.waited = ev.timeout

\* C10: a zero timeout means check once.  A poll or offer called with
\* Duration::ZERO never parks its caller: no thread is parked inside such a
\* call, and such a call returns without having parked.
ZeroTimed(op, timeout) == op \in {"poll", "offer"} /\ timeout = 0

C10_ZeroTimeoutChecksOnce ==
    /\ \A t \in Threads :
          ZeroTimed(th[t].op, th[t].timeout) => th[t].pc = "idle"
    /\ (ZeroTimed(ev.op, ev.timeout) /\ ev.res # "none") => ~ev.parked

\* C11: poll wait length.  With every thread scheduled as soon as it can
\* run, a poll(T), T > 0, waits no longer than until the head is ready: it
\* is never parked after the head's ready-time has passed, and an element
\* whose ready-time fell inside its wait is handed back at that ready-time,
\* not later.
C11_PollWaitLength ==
    /\ \A t \in Consumers :
          (InPoll(t) /\ th[t].pc = "elemTimed" /\ heap # <<>>) =>
              now <= Peek(heap).ready
    /\ (ev.op = "poll" /\ ev.timeout > 0 /\ ev.res = "some" /\ ev.parked
            /\ now - ev.waited <= ev.e.ready) =>
          now = ev.e.ready

\* C12: clear() wakes capacity waiters.  A clear() that empties the queue
\* while a producer is parked for a slot wakes a parked producer, and a
\* producer parked in add() beside a queue that only clear() has emptied
\* eventually inserts (or the queue is full again), no further call needed.
ParkedForSlot(f) ==
    {p \in Producers : f[p].pc \in {"slotAdd", "slotOffer"} /\ ~f[p].woken}

C12_ClearStep ==
    (cleared' # cleared /\ ParkedForSlot(th) # {}) =>
        \E p \in ParkedForSlot(th) : th'[p].woken

C12_AfterClear ==
    /\ cleared # {} /\ nRemoved = 0
    /\ FreeSlotWhileParked

C12_ClearWakesProducers ==
    /\ [][C12_ClearStep]_vars
    /\ C12_AfterClear ~> ~FreeSlotWhileParked

\* C13: tie-break among equal ready-times.  Elements sharing a ready-time
\* leave the queue in insertion order: an element handed back by take or poll
\* leaves behind no element of the same ready-time that was inserted before
\* it (identifiers are given in insertion order).
C13_TieBreakFifo ==
    (ev.res = "some") =>
        \A i \in 1..Len(heap) :
            heap[i].ready = ev.e.ready => heap[i].id > ev.e.id

\* C14: take() reacts to an earlier head.  With every thread scheduled as
\* soon as it can run, a take() in its timed wait is never left parked after
\* the ready-time of the current head has passed, whichever element became
\* the head while it waited.
InTimedTake(t) == th[t].op = "take" /\ th[t].pc = "elemTimed"

C14_TakeEarlierHead ==
    \A t \in Consumers :
        (InTimedTake(t) /\ heap # <<>>) => now <= Peek(heap).ready

\* C15: wake discipline.  A step in which add returns, offer returns true,
\* take returns or poll returns an element issues exactly one notify_one:
\* exactly one thread that was parked and not yet notified becomes runnable
\* (none if nobody else is parked).  A step in which offer returns false,
\* poll returns nothing or size() returns issues none, makes no thread
\* runnable and leaves the heap as it was.
NewlyWoken == {w \in Threads : th'[w].woken /\ ~th[w].woken}

OtherParked == {w \in Parked(th) : w # ev'.t}

C15_Success ==
    (ev'.res \in {"unit", "true", "some"}) =>
        /\ ev'.notified = 1
        /\ Cardinality(NewlyWoken) = IF OtherParked = {} THEN 0 ELSE 1
        /\ NewlyWoken \subseteq OtherParked

C15_Failure ==
    (ev'.res \in {"false", "empty", "size"}) =>
        /\ ev'.notified = 0
        /\ NewlyWoken = {}
        /\ heap' = heap

C15_WakeDiscipline == [][C15_Success /\ C15_Failure]_vars

C15_Witness ==
    /\ ev.res = "some"
    /\ ev.notified = 1
    /\ \E p \in Producers : th[p].pc = "slotAdd" /\ th[p].woken

\* C16: take()'s retry branch is unreachable.  No take() ever stands at the
\* recursive call self.wait_for_element(timeout): its timed wait for a head
\* never ends with a reported timeout.
C16_RetryUnreachable ==
    \A t \in Consumers : th[t].pc # "retry"

\* C17: take() never observes an empty result.  Every return of take()
\* carries an element that was inserted; take() never returns from a wait
\* that found nothing, so the unreachable!() arm is never executed.
C17_TakeNeverEmpty ==
    Returned("take") =>
        /\ ev.res = "some"
        /\ ev.e.id \in inserted

C17_Witness ==
    /\ Returned("take")
    /\ ev.parked
    /\ cleared # {}

\* C18: a poisoned lock is fatal for everyone.  Once the mutex is poisoned
\* it stays poisoned, the heap and the bookkeeping of insertions and removals
\* never change again, no call returns a result, and every thread that runs
\* (a new call, or a waiter coming back from its wait) ends in a panic.
C18_AfterPoison ==
    poisoned =>
        /\ poisoned'
        /\ UNCHANGED <<heap, capacity, inserted, removed, nRemoved, cleared,
                       rejected>>
        /\ ev'.res \in {"none", "panic"}
        /\ \A t \in Threads : th'[t] # th[t] => th'[t] = Idle
        /\ (th' # th \/ nextId' # nextId) => ev'.res = "panic"

C18_PoisonIsFatal == [][C18_AfterPoison]_vars

C18_Witness ==
    /\ poisoned
    /\ ev.res = "panic"
    /\ ev.parked
    /\ heap # <<>>

\* C19: pop_and_notify meets a non-empty heap.  With a payload that does
\* not panic, every pop happens in a step that starts with a ready head in
\* the heap, and mutex.pop().unwrap() never panics: no call ends in a panic
\* and the mutex is never poisoned.
C19_PopStep ==
    (nRemoved' # nRemoved) => HeadReady

C19_PopNonEmpty ==
    /\ [](~poisoned /\ ev.res # "panic")
    /\ [][C19_PopStep]_vars

C19_Witness ==
    /\ ev.res = "some"
    /\ ev.parked
    /\ nRemoved >= 2
    /\ cleared # {}

====
